---- MODULE Spec2Model ----
(***************************************************************************)
(* A model of raxios: a client facade over the reqwest transport.          *)
(*                                                                         *)
(* Representation.                                                         *)
(*   Option<T>     None is <<>>, Some(x) is <<x>>.                          *)
(*   Result<T,E>   [ok |-> TRUE, val |-> v] or [ok |-> FALSE, err |-> e].   *)
(*   URL strings   sequences of one-character strings; the character "U"   *)
(*                 stands for a character whose UTF-8 encoding is 2 bytes.  *)
(*   header keys and values are atomic strings; a string-keyed mapping     *)
(*                 (HashMap<String, String>) is a function, and its        *)
(*                 iteration order is an explicit sequence of its keys.    *)
(***************************************************************************)
EXTENDS Integers, Sequences, FiniteSets, TLC

VARIABLES
    client,     \* the Raxios value: [client, config, base_url]
    generation, \* how many times set_default_headers has replaced the handle
    calls,      \* one record per verb-call future
    configured, \* the last Raxios::new / set_default_headers: [op, arg, result]
    urlCall,    \* build_url exercised on its own: [endpoint, options, result]
    bodyCall    \* make_body exercised on its own: [config, data, options, result]

vars == <<client, generation, calls, configured, urlCall, bodyCall>>

-----------------------------------------------------------------------------
(* Bounds *)

MaxParams == 2
MaxCalls == 2
MaxSets == 1

-----------------------------------------------------------------------------
(* Option and Result *)

None == <<>>
Some(x) == <<x>>
Ok(v) == [ok |-> TRUE, val |-> v]
Err(e) == [ok |-> FALSE, err |-> e]

unwrap_or(opt, dflt) == IF opt = None THEN dflt ELSE opt[1]

-----------------------------------------------------------------------------
(* ContentType, raxios_options.rs *)

ContentTypes == {"Json", "TextXml", "ApplicationXml", "UrlEncoded"}

\* impl Display for ContentType
ContentType_to_string(c) ==
    CASE c = "Json" -> "application/json"
      [] c = "TextXml" -> "text/xml"
      [] c = "ApplicationXml" -> "application/xml"
      [] c = "UrlEncoded" -> "application/x-www-form-urlencoded"

\* variant: both XML MIME strings parse to TextXml
ContentType_from_str_OneXml(s) ==
    CASE s = "application/json" -> Ok("Json")
      [] s \in {"text/xml", "application/xml"} -> Ok("TextXml")
      [] s = "application/x-www-form-urlencoded" -> Ok("UrlEncoded")
      [] OTHER -> Err("()")

\* impl FromStr for ContentType
ContentType_from_str(s) ==
    CASE s = "application/json" -> Ok("Json")
      [] s = "text/xml" -> Ok("TextXml")
      [] s = "application/xml" -> Ok("ApplicationXml")
      [] s = "application/x-www-form-urlencoded" -> Ok("UrlEncoded")
      [] OTHER -> Err("()")

\* impl Default for ContentType
ContentType_default == "Json"

\* impl Default for RaxiosOptions
RaxiosOptions_default ==
    [headers |-> None, accept |-> None, content_type |-> None,
     params |-> None, deserialize_body |-> TRUE]

\* #[derive(Default)] struct RaxiosConfig
RaxiosConfig_default ==
    [timeout_ms |-> None, headers |-> None,
     accept |-> ContentType_default, content_type |-> ContentType_default]

-----------------------------------------------------------------------------
(* Strings as the URL builder sees them *)

\* the UTF-8 width of a character
Utf8Len(c) == IF c = "U" THEN 2 ELSE 1

RECURSIVE String_len(_)
\* String::len: the length in bytes
String_len(s) == IF s = <<>> THEN 0 ELSE Utf8Len(Head(s)) + String_len(Tail(s))

\* str::chars().nth(n): the n-th character, counted from 0
chars_nth(s, n) == IF n < Len(s) THEN Some(s[n + 1]) ELSE None

\* The greatest index; usize is 64 bits wide in the program, and every string
\* is shorter than either value.
USIZE_MAX == 2147483647

\* a - b on usize: with overflow checks (debug profile) an underflow panics,
\* without them (release profile) it wraps
usize_sub(a, b, overflow_checks) ==
    IF a >= b THEN Ok(a - b)
    ELSE IF overflow_checks THEN Err("panic: attempt to subtract with overflow")
    ELSE Ok(USIZE_MAX - (b - a) + 1)

\* ASCII letters of the model's alphabet
Alpha == {"h", "a", "t", "k", "j", "v"}

\* <String as FromStr for Url>::parse: a string parses as an absolute URL when
\* it starts with a scheme (letters up to a ':'); without one it is a relative
\* reference and parsing fails.
Url_parse(s) ==
    IF \E i \in 2..Len(s) : s[i] = ":" /\ \A j \in 1..(i - 1) : s[j] \in Alpha
    THEN Ok(s)
    ELSE Err("ParseError")

-----------------------------------------------------------------------------
(* Raxios::build_url, lib.rs *)

RECURSIVE params_loop_TrailingAmp(_, _, _, _)
\* mutant of params_loop: '&' after every pair
params_loop_TrailingAmp(built_string, params, index, added_param) ==
    IF index >= Len(params) THEN built_string
    ELSE LET key == params[index + 1][1]
             value == params[index + 1][2]
             s1 == IF ~added_param THEN built_string \o <<"?">> ELSE built_string
             s2 == s1 \o key \o <<"=">> \o value
             s3 == IF index < Len(params) THEN s2 \o <<"&">> ELSE s2
         IN params_loop_TrailingAmp(s3, params, index + 1, TRUE)

RECURSIVE params_loop(_, _, _, _)
\* for (index, (key, value)) in params.iter().enumerate() { ... }
params_loop(built_string, params, index, added_param) ==
    IF index >= Len(params) THEN built_string
    ELSE LET key == params[index + 1][1]
             value == params[index + 1][2]
             s1 == IF ~added_param THEN built_string \o <<"?">> ELSE built_string
             s2 == s1 \o key \o <<"=">> \o value
             s3 == IF index < Len(params) - 1 THEN s2 \o <<"&">> ELSE s2
         IN params_loop(s3, params, index + 1, TRUE)

\* The string build_url assembles before parsing it: Ok(built_string), or the
\* panic of the index computation.
build_url_string(self, endpoint, options, overflow_checks) ==
    LET s0 == self.base_url
        last == usize_sub(String_len(s0), 1, overflow_checks)
    IN IF ~last.ok THEN last
       ELSE LET s1 == IF chars_nth(s0, last.val) # Some("/")
                         /\ chars_nth(endpoint, 0) # Some("/")
                      THEN s0 \o <<"/">> ELSE s0
                s2 == s1 \o endpoint
                s3 == IF options # None /\ options[1].params # None
                      THEN params_loop(s2, options[1].params[1], 0, FALSE)
                      ELSE s2
            IN Ok(s3)

\* build_url: [kind |-> "Ok", url, built_string], [kind |-> "InvalidUrl", 0 |-> s]
\* or [kind |-> "Panic"]
build_url(self, endpoint, options, overflow_checks) ==
    LET built == build_url_string(self, endpoint, options, overflow_checks)
    IN IF ~built.ok THEN [kind |-> "Panic", built_string |-> <<>>]
       ELSE IF Url_parse(built.val).ok
            THEN [kind |-> "Ok", built_string |-> built.val]
            ELSE [kind |-> "InvalidUrl", built_string |-> built.val]

-----------------------------------------------------------------------------
(* The transport's header representation (reqwest::header), as used by       *)
(* utils.rs and lib.rs                                                       *)

\* const USER_AGENT: CARGO_PKG_NAME "/" CARGO_PKG_VERSION
USER_AGENT == "raxios/0.0.0"

\* reqwest::header::CONTENT_TYPE.to_string() and ACCEPT.to_string()
CONTENT_TYPE == "content-type"
ACCEPT == "accept"

\* HeaderName::from_str: a valid name is a token, and is stored in lower case;
\* a name with a space in it, or the empty name, is refused.
HeaderName_from_str(key) ==
    CASE key \in {"user-agent", "User-Agent"} -> Ok("user-agent")
      [] key \in {"content-type", "Content-Type"} -> Ok("content-type")
      [] key \in {"accept", "Accept"} -> Ok("accept")
      [] key \in {"x-a", "X-A"} -> Ok("x-a")
      [] key \in {"x-b"} -> Ok("x-b")
      [] OTHER -> Err("InvalidHeaderName")

\* <HeaderValue as FromStr>::from_str: control characters are refused
HeaderValue_from_str(value) ==
    IF value \in {"line1\nline2"} THEN Err("InvalidHeaderValue") ELSE Ok(value)

\* HeaderValue::to_str: only visible ASCII converts; "opaque" stands for a
\* value holding bytes above 127
HeaderValue_to_str(value) ==
    IF value \in {"opaque"} THEN Err("ToStrError") ELSE Ok(value)

\* A HeaderMap maps a lower-case name to the sequence of its values.
HeaderMap_new == [k \in {} |-> <<>>]

\* HeaderMap::insert: the value replaces the values the name had
HeaderMap_insert(h, name, value) ==
    [k \in DOMAIN h \cup {name} |-> IF k = name THEN <<value>> ELSE h[k]]

\* HeaderMap::append: the value is added after the values the name had
HeaderMap_append(h, name, value) ==
    [k \in DOMAIN h \cup {name} |->
        IF k = name THEN (IF name \in DOMAIN h THEN Append(h[name], value) ELSE <<value>>)
        ELSE h[k]]

\* HashMap::insert on a RaxiosHeaders
Map_insert(m, key, value) ==
    [k \in DOMAIN m \cup {key} |-> IF k = key THEN value ELSE m[k]]

\* HashMap::new / Default
Map_new == [k \in {} |-> ""]

\* The orders in which a HashMap over the key set S may be iterated
RECURSIVE Orders(_)
Orders(S) ==
    IF S = {} THEN {<<>>}
    ELSE UNION {{<<x>> \o o : o \in Orders(S \ {x})} : x \in S}

-----------------------------------------------------------------------------
(* utils.rs *)

RECURSIVE map_to_reqwest_headers_from(_, _, _, _)
\* for (key, value) in map { headers.insert(name?, value?) }, iterating in order
map_to_reqwest_headers_from(map, order, i, headers) ==
    IF i > Len(order) THEN Ok(headers)
    ELSE LET key == order[i]
             value == map[key]
             name == HeaderName_from_str(key)
             val == HeaderValue_from_str(value)
         IN IF ~name.ok \/ ~val.ok
            THEN Err([kind |-> "HeaderParseError", key |-> key, value |-> value])
            ELSE map_to_reqwest_headers_from(map, order, i + 1,
                                             HeaderMap_insert(headers, name.val, val.val))

\* map_to_reqwest_headers: the results it can give, one per iteration order
map_to_reqwest_headers(map) ==
    {map_to_reqwest_headers_from(map, o, 1, HeaderMap_new) : o \in Orders(DOMAIN map)}

RECURSIVE reqwest_headers_to_map_from(_, _, _)
\* for (key, value) in header { to_return.insert(key, value.to_str()?) }
\* `entries` lists the (name, value) pairs of the HeaderMap in iteration order
reqwest_headers_to_map_from(entries, i, to_return) ==
    IF i > Len(entries) THEN Ok(to_return)
    ELSE LET s == HeaderValue_to_str(entries[i][2])
         IN IF ~s.ok THEN Err([kind |-> "Unknown"])
            ELSE reqwest_headers_to_map_from(entries, i + 1,
                                             Map_insert(to_return, entries[i][1], s.val))

reqwest_headers_to_map(entries) ==
    reqwest_headers_to_map_from(entries, 1, Map_new)

-----------------------------------------------------------------------------
(* Raxios construction and default headers, lib.rs *)

\* Raxios::insert_default_headers
insert_default_headers(headers, config) ==
    LET h1 == Map_insert(headers, "user-agent", USER_AGENT)
    IN IF config # None
       THEN Map_insert(
                Map_insert(h1, CONTENT_TYPE, ContentType_to_string(config[1].content_type)),
                ACCEPT, ContentType_to_string(config[1].accept))
       ELSE h1

\* ClientBuilder::default().default_headers(h).timeout(t).build(): a transport
\* handle; `id` tells handles apart
Client_build(id, default_headers, timeout) ==
    [id |-> id, default_headers |-> default_headers, timeout |-> timeout]

\* Raxios::new: the results it can give. build_ok is whether the transport's
\* ClientBuilder::build succeeds.
Raxios_new(base_url, options, build_ok, id) ==
    LET options0 == unwrap_or(options, RaxiosConfig_default)
        headers0 == unwrap_or(options0.headers, Map_new)
        headers == insert_default_headers(headers0, Some(options0))
        options1 == [options0 EXCEPT !.headers = Some(headers)]
    IN {IF ~default_headers.ok THEN default_headers
        ELSE IF ~build_ok THEN Err([kind |-> "Unknown"])
        ELSE Ok([base_url |-> base_url,
                 config |-> Some(options1),
                 client |-> Client_build(id, default_headers.val, options1.timeout_ms)])
        : default_headers \in map_to_reqwest_headers(headers)}

\* impl Default for Raxios
Raxios_default ==
    LET headers == insert_default_headers(Map_new, None)
    IN {[base_url |-> <<>>,
         config |-> Some([RaxiosConfig_default EXCEPT !.headers = Some(headers)]),
         client |-> Client_build(0, h.val, None)]
        : h \in map_to_reqwest_headers(headers)}

\* Raxios::set_default_headers: the pairs <<result, self afterwards>> it can give
set_default_headers(self, headers, build_ok, id) ==
    LET headers0 == unwrap_or(headers, Map_new)
        headers1 == insert_default_headers(headers0, self.config)
        opts == [unwrap_or(self.config, RaxiosConfig_default) EXCEPT !.headers = Some(headers1)]
    IN {IF ~new_raxios.ok THEN <<new_raxios, self>>
        ELSE <<Ok("()"), [self EXCEPT !.client = new_raxios.val.client,
                                      !.config = new_raxios.val.config]>>
        : new_raxios \in Raxios_new(self.base_url, Some(opts), build_ok, id)}

-----------------------------------------------------------------------------
(* Request construction, lib.rs *)

\* The serializers behind make_body. A payload is "flat" (a struct of string
\* fields: every format encodes it), "nested" (a struct holding a struct:
\* the form encoder refuses it) or "tuplekey" (a map keyed by tuples: no
\* format encodes it).
serde_json_to_vec(data) ==
    IF data \in {"flat", "nested"} THEN Ok(<<"json", data>>) ELSE Err("Json")

serde_xml_rs_to_string(data) ==
    IF data \in {"flat", "nested"} THEN Ok(<<"xml", data>>) ELSE Err("Xml")

serde_urlencoded_to_string(data) ==
    IF data \in {"flat"} THEN Ok(<<"form", data>>) ELSE Err("UrlEncoded")

\* mutant of make_body_content_type: options without an override fall to Json
make_body_content_type_NoFallback(config, options) ==
    IF options # None
    THEN IF options[1].content_type # None
         THEN options[1].content_type[1]
         ELSE ContentType_default
    ELSE IF config # None THEN config[1].content_type ELSE ContentType_default

\* make_body, lines 177-191: the content type the body is encoded with
make_body_content_type(config, options) ==
    IF options # None
    THEN IF options[1].content_type # None
         THEN options[1].content_type[1]
         ELSE IF config # None THEN config[1].content_type ELSE ContentType_default
    ELSE IF config # None THEN config[1].content_type ELSE ContentType_default

\* Raxios::make_body: Ok(<<bytes, content_type>>) or a SerializationError
make_body(self, data, options) ==
    LET content_type == make_body_content_type(self.config, options)
        data_to_return ==
            CASE content_type = "Json" -> serde_json_to_vec(data)
              [] content_type \in {"TextXml", "ApplicationXml"} -> serde_xml_rs_to_string(data)
              [] content_type = "UrlEncoded" -> serde_urlencoded_to_string(data)
    IN IF ~data_to_return.ok
       THEN Err([kind |-> "SerializationError", format |-> data_to_return.err])
       ELSE Ok(<<data_to_return.val, content_type>>)

\* RequestBuilder::headers: the given headers replace those of the same name
RequestBuilder_headers(builder, headers) ==
    [builder EXCEPT !.headers =
        [k \in DOMAIN builder.headers \cup DOMAIN headers |->
            IF k \in DOMAIN headers THEN headers[k] ELSE builder.headers[k]]]

\* RequestBuilder::header: the value is appended to those of the name
RequestBuilder_header(builder, name, value) ==
    [builder EXCEPT !.headers = HeaderMap_append(builder.headers, name, value)]

\* RequestBuilder::body
RequestBuilder_body(builder, body) == [builder EXCEPT !.body = Some(body)]

\* Client::get / post / put / patch / delete: a builder holding the handle
Client_request(handle, method, url) ==
    [client |-> handle, method |-> method, url |-> url,
     headers |-> HeaderMap_new, body |-> None]

\* RequestBuilder::send: the request as it goes out. The handle's default
\* headers are added for the names the request does not carry.
RequestBuilder_send(builder) ==
    [builder EXCEPT !.headers =
        [k \in DOMAIN builder.headers \cup DOMAIN builder.client.default_headers |->
            IF k \in DOMAIN builder.headers THEN builder.headers[k]
            ELSE builder.client.default_headers[k]]]

\* variant: a per-call header mapping that does not convert is left out and
\* the request goes on
build_request_SkipBadHeaders(self, data, options, original_builder) ==
    LET b0 == original_builder
        with_body ==
            IF data # None
            THEN LET made == make_body(self, data[1], options)
                 IN IF ~made.ok THEN made
                    ELSE Ok(RequestBuilder_header(
                                RequestBuilder_body(b0, made.val[1]),
                                CONTENT_TYPE, ContentType_to_string(made.val[2])))
            ELSE Ok(b0)
    IN {with_body}

\* Raxios::build_request: the results it can give (one per iteration order of
\* the per-call header mapping)
build_request(self, data, options, original_builder) ==
    LET convs == IF options # None /\ options[1].headers # None
                 THEN map_to_reqwest_headers(options[1].headers[1])
                 ELSE {Ok(HeaderMap_new)}
        with_body(builder) ==
            IF data # None
            THEN LET made == make_body(self, data[1], options)
                 IN IF ~made.ok THEN made
                    ELSE Ok(RequestBuilder_header(
                                RequestBuilder_body(builder, made.val[1]),
                                CONTENT_TYPE, ContentType_to_string(made.val[2])))
            ELSE Ok(builder)
        with_accept(builder) ==
            IF options # None /\ options[1].accept # None
            THEN RequestBuilder_header(builder, ACCEPT,
                                       ContentType_to_string(options[1].accept[1]))
            ELSE builder
    IN {IF ~conv.ok THEN conv
        ELSE LET b1 == with_body(RequestBuilder_headers(original_builder, conv.val))
             IN IF ~b1.ok THEN b1 ELSE Ok(with_accept(b1.val))
        : conv \in convs}

\* A verb method up to its first await (post: lines 335-342; get: 396-403;
\* delete: 452-460; put: 509-516; patch: 565-572): Ok(the builder that is
\* sent), an error returned to the caller, or a panic.
verb_prefix(self, method, endpoint, data, options, overflow_checks) ==
    LET options0 == unwrap_or(options, RaxiosOptions_default)
        url == build_url(self, endpoint, Some(options0), overflow_checks)
    IN IF url.kind = "Panic" THEN {Err([kind |-> "Panic"])}
       ELSE IF url.kind = "InvalidUrl"
            THEN {Err([kind |-> "InvalidUrl", url |-> url.built_string])}
            ELSE build_request(self, data, Some(options0),
                               Client_request(self.client, method, url.built_string))

-----------------------------------------------------------------------------
(* Response handling, lib.rs and network_error.rs *)

\* StatusCode::is_client_error, StatusCode::is_server_error
StatusCode_is_client_error(status) == 400 <= status /\ status < 500
StatusCode_is_server_error(status) == 500 <= status /\ status < 600

\* serde_json::from_slice::<T> for a T that is an empty struct: the bytes must
\* be the JSON object {} (blanks around it allowed)
serde_json_from_slice(raw_body) ==
    IF SelectSeq(raw_body, LAMBDA b : b # " ") = <<"{", "}">>
    THEN Ok("T") ELSE Err("serde_json::Error")

\* NetworkError::new. response.bytes is what reading the body gives: Ok(bytes)
\* or the transport's error.
NetworkError_new(response) ==
    [kind |-> "NetworkError",
     status_code |-> response.status,
     origin_address |-> response.remote_addr,
     raw_body |-> IF response.bytes.ok THEN Some(response.bytes.val) ELSE None]

\* mutant of check_response_and_return_err: server errors pass
check_response_and_return_err_ClientOnly(response) ==
    IF StatusCode_is_client_error(response.status)
    THEN Err(NetworkError_new(response))
    ELSE Ok(response)

\* Raxios::check_response_and_return_err
check_response_and_return_err(response) ==
    IF StatusCode_is_client_error(response.status)
       \/ StatusCode_is_server_error(response.status)
    THEN Err(NetworkError_new(response))
    ELSE Ok(response)

\* mutant of decode_body: the flag is not looked at
decode_body_IgnoreFlag(raw_body, deserialize_body) ==
    IF raw_body # None
    THEN LET temp_body == serde_json_from_slice(raw_body[1])
         IN IF ~temp_body.ok THEN Err([kind |-> "DeserializationError"])
            ELSE Ok(Some(temp_body.val))
    ELSE Ok(None)

\* mutant of decode_body: a decode failure leaves the body empty
decode_body_Swallow(raw_body, deserialize_body) ==
    IF raw_body # None /\ deserialize_body
    THEN LET temp_body == serde_json_from_slice(raw_body[1])
         IN IF ~temp_body.ok THEN Ok(None) ELSE Ok(Some(temp_body.val))
    ELSE Ok(None)

\* response_to_raxios_response, lines 258-268: the decoded body, or the
\* DeserializationError that ends the call
decode_body(raw_body, deserialize_body) ==
    IF raw_body # None /\ deserialize_body
    THEN LET temp_body == serde_json_from_slice(raw_body[1])
         IN IF ~temp_body.ok THEN Err([kind |-> "DeserializationError"])
            ELSE Ok(Some(temp_body.val))
    ELSE Ok(None)

\* Raxios::response_to_raxios_response
response_to_raxios_response(response0, deserialize_body) ==
    LET checked == check_response_and_return_err(response0)
    IN IF ~checked.ok THEN checked
       ELSE LET response == checked.val
                raw_body == IF response.bytes.ok THEN Some(response.bytes.val) ELSE None
                body == decode_body(raw_body, deserialize_body)
                response_headers == reqwest_headers_to_map(response.headers)
            IN IF ~body.ok THEN body
               ELSE IF ~response_headers.ok THEN response_headers
               ELSE Ok([body |-> body.val,
                        raw_body |-> raw_body,
                        status |-> response.status,
                        response_headers |-> response_headers.val,
                        remote_address |-> response.remote_addr])

-----------------------------------------------------------------------------
(* Inputs *)

ValidBase == <<"h", ":", "/", "/", "a">>

\* base URLs given to Raxios::new: with and without a trailing '/', with a
\* two-byte character, without a scheme, and empty
BaseUrls ==
    {ValidBase, ValidBase \o <<"/">>,
     <<"h", ":", "/", "/", "U">>, <<"h", ":", "/", "/", "U", "/">>,
     <<"a">>, <<>>}

Endpoints == {<<"/", "t">>, <<"t">>, <<>>}

ParamKeys == {<<"k">>, <<"j">>, <<"k", "k">>}
ParamValues == {<<"v">>, <<>>}

\* a parameter mapping in its iteration order: pairs with distinct keys
ParamSeqs ==
    UNION {{p \in [1..n -> ParamKeys \X ParamValues] :
                \A i, j \in 1..n : p[i][1] = p[j][1] => i = j}
           : n \in 0..MaxParams}

OptionsWith(headers, accept, content_type, params, deserialize_body) ==
    [headers |-> headers, accept |-> accept, content_type |-> content_type,
     params |-> params, deserialize_body |-> deserialize_body]

UrlOptions ==
    {None, Some(RaxiosOptions_default)}
    \cup {Some([RaxiosOptions_default EXCEPT !.params = Some(p)]) : p \in ParamSeqs}

Payloads == {"flat", "nested", "tuplekey"}

Header(key, value) == [k \in {key} |-> value]

\* per-call header mappings
CallHeaders ==
    {None, Some(Header("x-a", "p")), Some(Header("content-type", "text/plain")),
     Some(Header("bad key", "p"))}

CallOptions ==
    {None}
    \cup {Some(OptionsWith(h, a, c, p, d)) :
            h \in CallHeaders, a \in {None, Some("TextXml")},
            c \in {None, Some("UrlEncoded")},
            p \in {None, Some(<< <<(<<"k">>), (<<"v">>)>> >>)},
            d \in BOOLEAN}

CallData == {None, Some("flat"), Some("nested")}

\* client configurations given to Raxios::new
ConfigWith(timeout_ms, headers, accept, content_type) ==
    [timeout_ms |-> timeout_ms, headers |-> headers,
     accept |-> accept, content_type |-> content_type]

CallConfigs ==
    {None, Some(ConfigWith(None, Some(Header("x-a", "c")), "Json", "ApplicationXml"))}

Statuses == {200, 399, 400, 599, 600}

Bodies == {<<>>, <<"{", "}">>, <<"{">>}

ResponseHeaders ==
    {<<>>, << <<"content-type", "application/json">> >>, << <<"x-r", "opaque">> >>}

\* what the transport can hand back: status, peer address, headers, and what
\* reading the body gives
Responses ==
    {[status |-> s, remote_addr |-> Some("peer"), headers |-> h, bytes |-> b] :
        s \in Statuses, h \in ResponseHeaders,
        b \in {Ok(x) : x \in Bodies} \cup {Err("reqwest::Error")}}

-----------------------------------------------------------------------------
(* State machine *)

CallIds == 1..MaxCalls

IdleCall ==
    [pc |-> "idle", method |-> "", endpoint |-> <<>>, data |-> None, options |-> None,
     started |-> None, request |-> None, response |-> None, result |-> None,
     sends |-> 0]

UrlIdle == [endpoint |-> <<>>, options |-> None, result |-> None]
BodyIdle == [config |-> None, data |-> "flat", options |-> None, result |-> None]

\* the client is the outcome of a successful Raxios::new(base, config)
InitNew(bases, configs) ==
    \E b \in bases, cfg \in configs :
        \E r \in Raxios_new(b, cfg, TRUE, 0) :
            /\ r.ok
            /\ client = r.val
            /\ configured = [op |-> "new", arg |-> cfg, result |-> Ok("()")]

\* the client is Raxios::default()
InitDefault ==
    \E r \in Raxios_default :
        /\ client = r
        /\ configured = [op |-> "default", arg |-> None, result |-> Ok("()")]

InitRest ==
    /\ generation = 0
    /\ calls = [c \in CallIds |-> IdleCall]

\* calling an async verb method makes the future; nothing runs until it is polled
CallCreate(c, method, endpoint, data, options) ==
    /\ calls[c].pc = "idle"
    /\ calls' = [calls EXCEPT ![c] =
                    [IdleCall EXCEPT !.pc = "created", !.method = method,
                                     !.endpoint = endpoint, !.data = data,
                                     !.options = options, !.started = Some(client)]]
    /\ UNCHANGED <<client, generation, configured, urlCall, bodyCall>>

Get(c, endpoints, optionses) ==
    \E e \in endpoints, o \in optionses : CallCreate(c, "GET", e, None, o)

Post(c, endpoints, datas, optionses) ==
    \E e \in endpoints, d \in datas, o \in optionses : CallCreate(c, "POST", e, d, o)

Delete(c, endpoints, datas, optionses) ==
    \E e \in endpoints, d \in datas, o \in optionses : CallCreate(c, "DELETE", e, d, o)

Put(c, endpoints, datas, optionses) ==
    \E e \in endpoints, d \in datas, o \in optionses : CallCreate(c, "PUT", e, d, o)

Patch(c, endpoints, datas, optionses) ==
    \E e \in endpoints, d \in datas, o \in optionses : CallCreate(c, "PATCH", e, d, o)

\* first poll: the method runs up to `.send().await`
Poll(c) ==
    /\ calls[c].pc = "created"
    /\ \E overflow_checks \in BOOLEAN :
        \E r \in verb_prefix(client, calls[c].method, calls[c].endpoint,
                             calls[c].data, calls[c].options, overflow_checks) :
            calls' = [calls EXCEPT ![c] =
                        IF r.ok
                        THEN [@ EXCEPT !.pc = "sent",
                                       !.request = Some(RequestBuilder_send(r.val)),
                                       !.sends = @ + 1]
                        ELSE [@ EXCEPT !.pc = "done", !.result = Some(r)]]
    /\ UNCHANGED <<client, generation, configured, urlCall, bodyCall>>

\* variant: a failed send is tried a second time before the call gives up
SendFails_Retry(c) ==
    /\ calls[c].pc = "sent"
    /\ calls' = [calls EXCEPT ![c] =
                    IF @.sends < 2
                    THEN [@ EXCEPT !.sends = @ + 1]
                    ELSE [@ EXCEPT !.pc = "done",
                                   !.result = Some(Err([kind |-> "UnableToSendRequest",
                                                        err |-> "reqwest::Error"]))]]
    /\ UNCHANGED <<client, generation, configured, urlCall, bodyCall>>

\* the transport's send fails: .map_err(|e| UnableToSendRequest { err: e })?
SendFails(c) ==
    /\ calls[c].pc = "sent"
    /\ calls' = [calls EXCEPT ![c] =
                    [@ EXCEPT !.pc = "done",
                              !.result = Some(Err([kind |-> "UnableToSendRequest",
                                                   err |-> "reqwest::Error"]))]]
    /\ UNCHANGED <<client, generation, configured, urlCall, bodyCall>>

\* the transport hands back a response: response_to_raxios_response runs
Respond(c, responses) ==
    /\ calls[c].pc = "sent"
    /\ \E response \in responses :
        calls' = [calls EXCEPT ![c] =
                    [@ EXCEPT !.pc = "done",
                              !.response = Some(response),
                              !.result = Some(response_to_raxios_response(
                                  response,
                                  unwrap_or(calls[c].options,
                                            RaxiosOptions_default).deserialize_body))]]
    /\ UNCHANGED <<client, generation, configured, urlCall, bodyCall>>

\* the caller is done with the outcome of the call
Drop(c) ==
    /\ calls[c].pc = "done"
    /\ calls' = [calls EXCEPT ![c] = IdleCall]
    /\ UNCHANGED <<client, generation, configured, urlCall, bodyCall>>

\* variant: set_default_headers callable while a call's future is alive
no_shared_borrow_Unchecked == TRUE

\* set_default_headers takes &mut self and a verb call's future holds &self:
\* it can run only while no future of this client is alive
no_shared_borrow == \A c \in CallIds : calls[c].pc \notin {"created", "sent"}

SetDefaultHeaders(headerses) ==
    /\ generation < MaxSets
    /\ no_shared_borrow
    /\ \E headers \in headerses, build_ok \in BOOLEAN :
        \E out \in set_default_headers(client, headers, build_ok, generation + 1) :
            /\ client' = out[2]
            /\ configured' = [op |-> "set_default_headers", arg |-> headers,
                              result |-> out[1]]
            /\ generation' = IF out[1].ok THEN generation + 1 ELSE generation
    /\ UNCHANGED <<calls, urlCall, bodyCall>>

\* build_url on its own
BuildUrl ==
    /\ urlCall.result = None
    /\ \E overflow_checks \in BOOLEAN :
        urlCall' = [urlCall EXCEPT !.result =
                        Some(build_url(client, urlCall.endpoint, urlCall.options,
                                       overflow_checks))]
    /\ UNCHANGED <<client, generation, calls, configured, bodyCall>>

\* make_body on its own
MakeBody ==
    /\ bodyCall.result = None
    /\ bodyCall' = [bodyCall EXCEPT !.result =
                        Some(make_body([config |-> bodyCall.config], bodyCall.data,
                                       bodyCall.options))]
    /\ UNCHANGED <<client, generation, calls, configured, urlCall>>

-----------------------------------------------------------------------------
(* SpecUrl: build_url over base URLs, endpoints and parameter mappings *)

InitUrl ==
    /\ InitNew(BaseUrls, {None}) \/ InitDefault
    /\ InitRest
    /\ urlCall \in {[endpoint |-> e, options |-> o, result |-> None] :
                        e \in Endpoints, o \in UrlOptions}
    /\ bodyCall = BodyIdle

NextUrl == BuildUrl

SpecUrl == InitUrl /\ [][NextUrl]_vars

-----------------------------------------------------------------------------
(* SpecBody: make_body over configurations, options and payloads *)

BodyConfigs ==
    {None} \cup {Some(ConfigWith(None, None, "Json", c)) : c \in ContentTypes}

BodyOptions ==
    {None, Some(RaxiosOptions_default)}
    \cup {Some([RaxiosOptions_default EXCEPT !.content_type = Some(c)]) : c \in ContentTypes}

InitBody ==
    /\ InitNew({ValidBase}, {None})
    /\ InitRest
    /\ urlCall = UrlIdle
    /\ bodyCall \in {[config |-> cfg, data |-> d, options |-> o, result |-> None] :
                        cfg \in BodyConfigs, d \in Payloads, o \in BodyOptions}

NextBody == MakeBody

SpecBody == InitBody /\ [][NextBody]_vars

-----------------------------------------------------------------------------
(* SpecCall: one verb call at a time, over the whole range of its inputs *)

InitCall ==
    /\ InitNew({ValidBase, <<"a">>}, CallConfigs) \/ InitDefault
    /\ InitRest
    /\ urlCall = UrlIdle
    /\ bodyCall = BodyIdle

NextCall ==
    \/ Get(1, {<<"/", "t">>}, CallOptions)
    \/ Post(1, {<<"/", "t">>}, CallData, CallOptions)
    \/ Delete(1, {<<"/", "t">>}, CallData, CallOptions)
    \/ Put(1, {<<"/", "t">>}, CallData, CallOptions)
    \/ Patch(1, {<<"/", "t">>}, CallData, CallOptions)
    \/ Poll(1)
    \/ SendFails(1)
    \/ Respond(1, Responses)
    \/ Drop(1)

SpecCall == InitCall /\ [][NextCall]_vars

-----------------------------------------------------------------------------
(* Spec: verb calls and set_default_headers interleaved on one client. get   *)
(* and post stand for the five verb methods, which differ in the method     *)
(* name only; SpecCall runs all five.                                       *)

\* arguments of set_default_headers
SetHeaders == {None, Some(Header("x-a", "s")), Some(Header("bad key", "s"))}

SpecResponses ==
    {[status |-> 200, remote_addr |-> Some("peer"), headers |-> <<>>,
      bytes |-> Ok(<<"{", "}">>)]}

Init ==
    /\ InitNew({ValidBase}, {None}) \/ InitDefault
    /\ InitRest
    /\ urlCall = UrlIdle
    /\ bodyCall = BodyIdle

Next ==
    \/ \E c \in CallIds :
        \/ Get(c, {<<"/", "t">>}, {None})
        \/ Post(c, {<<"/", "t">>}, {Some("flat")}, {None})
        \/ Poll(c)
        \/ SendFails(c)
        \/ Respond(c, SpecResponses)
        \/ Drop(c)
    \/ SetDefaultHeaders(SetHeaders)

Spec == Init /\ [][Next]_vars

-----------------------------------------------------------------------------
(* SpecClient: Raxios::new, Raxios::default and set_default_headers *)

\* configurations whose headers name the defaults the client injects
ClientConfigs ==
    {None,
     Some(ConfigWith(None, None, "UrlEncoded", "TextXml")),
     Some(ConfigWith(None, Some("User-Agent" :> "custom" @@ "accept" :> "text/plain"),
                     "Json", "Json")),
     Some(ConfigWith(Some(1000), Some(Header("user-agent", "custom")), "Json", "Json")),
     Some(ConfigWith(None, Some("content-type" :> "text/plain" @@ "x-a" :> "c"),
                     "TextXml", "ApplicationXml"))}

ClientSetHeaders ==
    {None, Some(Header("x-a", "s")), Some(Header("accept", "text/plain")),
     Some(Header("user-agent", "custom")), Some(Header("bad key", "s")),
     Some("x-b" :> "s" @@ "x-a" :> "line1\nline2"),
     Some(Header("accept", "line1\nline2"))}

InitClient ==
    /\ InitNew({ValidBase, <<>>}, ClientConfigs) \/ InitDefault
    /\ InitRest
    /\ urlCall = UrlIdle
    /\ bodyCall = BodyIdle

NextClient == SetDefaultHeaders(ClientSetHeaders)

SpecClient == InitClient /\ [][NextClient]_vars

-----------------------------------------------------------------------------
(* Properties of build_url, under SpecUrl *)

UrlDone == urlCall.result # None /\ urlCall.result[1].kind # "Panic"

RECURSIVE SlashRun(_, _)
\* how many '/' stand in a row in s from position p on
SlashRun(s, p) ==
    IF p <= Len(s) /\ s[p] = "/" THEN 1 + SlashRun(s, p + 1) ELSE 0

\* the slashes at the point where base and endpoint meet in the built string
JoinSlashes(built, base) ==
    (IF base # <<>> /\ base[Len(base)] = "/" THEN 1 ELSE 0)
    + SlashRun(built, Len(base) + 1)

\* C1: whatever the base URL and the endpoint, the string build_url produces
\* has exactly one '/' where the two are joined.
C1_ExactlyOneSlashAtJoin ==
    UrlDone => JoinSlashes(urlCall.result[1].built_string, client.base_url) = 1

RECURSIVE JoinPairs(_)
\* key=value pairs separated by single '&'
JoinPairs(params) ==
    IF params = <<>> THEN <<>>
    ELSE params[1][1] \o <<"=">> \o params[1][2]
         \o (IF Len(params) > 1 THEN <<"&">> \o JoinPairs(Tail(params)) ELSE <<>>)

\* the query a call's options ask for
ExpectedQuery(options) ==
    IF options = None \/ options[1].params = None \/ options[1].params[1] = <<>>
    THEN <<>>
    ELSE <<"?">> \o JoinPairs(options[1].params[1])

\* C2: build_url appends to the joined path '?' and the key=value pairs in
\* iteration order, separated by single '&', and nothing at all when there are
\* no parameters.
C2_QueryRendering ==
    UrlDone =>
        urlCall.result[1].built_string
            = build_url_string(client, urlCall.endpoint, None, FALSE).val
              \o ExpectedQuery(urlCall.options)

\* C2 witness: a URL built with two parameters
C2_Witness ==
    /\ UrlDone
    /\ urlCall.result[1].kind = "Ok"
    /\ urlCall.options # None
    /\ urlCall.options[1].params # None
    /\ Len(urlCall.options[1].params[1]) = 2

-----------------------------------------------------------------------------
(* Properties of a verb call's response handling, under SpecCall *)

\* the call has ended after the transport handed back a response
Answered(c) == calls[c].pc = "done" /\ calls[c].response # None

DeserializeBody(c) ==
    unwrap_or(calls[c].options, RaxiosOptions_default).deserialize_body

IsNetworkError(r) == ~r.ok /\ r.err.kind = "NetworkError"

ErrorStatus(s) == 400 <= s /\ s <= 599

\* every value of the response's headers converts to a string
HeadersConvert(entries) ==
    \A i \in 1..Len(entries) : entries[i][2] # "opaque"

OptedOut(c) ==
    /\ Answered(c)
    /\ ~DeserializeBody(c)
    /\ ~ErrorStatus(calls[c].response[1].status)

\* the response value of C7: no decoded body, the raw bytes as read
RawOnly(c) ==
    LET r == calls[c].result[1]
        bytes == calls[c].response[1].bytes
    IN /\ r.ok
       /\ r.val.body = None
       /\ r.val.raw_body = (IF bytes.ok THEN Some(bytes.val) ELSE None)

\* C7 as claimed: with deserialize_body = false and a status that is not
\* 4xx/5xx the call always returns a response value with no decoded body and
\* the raw bytes of the response.
C7_OptOutAlwaysResponds ==
    \A c \in CallIds : OptedOut(c) => RawOnly(c)

\* C7 as amended: such a call returns that response value when every response
\* header value converts to a string and the error Unknown when one does not;
\* it never returns DeserializationError.
C7_OptOut ==
    \A c \in CallIds :
        OptedOut(c) =>
            IF HeadersConvert(calls[c].response[1].headers)
            THEN RawOnly(c)
            ELSE ~calls[c].result[1].ok /\ calls[c].result[1].err.kind = "Unknown"

\* C7 witness: an opted-out call answered 200 with valid JSON bytes has ended
\* with a response value
C7_Witness ==
    \E c \in CallIds :
        /\ OptedOut(c)
        /\ calls[c].response[1].bytes = Ok(<<"{", "}">>)
        /\ calls[c].result[1].ok

\* the case of C8: deserialization on, status not 4xx/5xx, bytes that are
\* there and are not JSON for the expected type
Undecodable(c) ==
    /\ Answered(c)
    /\ DeserializeBody(c)
    /\ ~ErrorStatus(calls[c].response[1].status)
    /\ calls[c].response[1].bytes.ok
    /\ calls[c].response[1].bytes.val # <<>>
    /\ ~serde_json_from_slice(calls[c].response[1].bytes.val).ok

\* C8: a call that asked for deserialization and got bytes that do not decode
\* returns DeserializationError, never a response value.
C8_DecodeFailureIsAnError ==
    \A c \in CallIds :
        Undecodable(c) =>
            ~calls[c].result[1].ok /\ calls[c].result[1].err.kind = "DeserializationError"

\* C8 witness: such a call has ended
C8_Witness == \E c \in CallIds : Undecodable(c)

\* C9: a call that asked for deserialization and got a response without body
\* (zero bytes) returns a response value whose decoded body is empty; and the
\* decoded body of a response value is there exactly when deserialization was
\* asked for and the bytes were there and valid.
C9_AbsentBodyIsNotAnError ==
    \A c \in CallIds :
        (Answered(c) /\ ~ErrorStatus(calls[c].response[1].status)
            /\ HeadersConvert(calls[c].response[1].headers)) =>
            LET r == calls[c].result[1]
                bytes == calls[c].response[1].bytes
            IN /\ (DeserializeBody(c) /\ bytes = Ok(<<>>)) => r.ok /\ r.val.body = None
               /\ r.ok => (r.val.body # None <=>
                            /\ DeserializeBody(c)
                            /\ bytes.ok
                            /\ serde_json_from_slice(bytes.val).ok)

-----------------------------------------------------------------------------
(* Properties of make_body, under SpecBody *)

\* the content type C6 asks for: the per-call override, else the client
\* configuration's, else Json
ExpectedContentType(config, options) ==
    CASE options # None /\ options[1].content_type # None -> options[1].content_type[1]
      [] config # None -> config[1].content_type
      [] OTHER -> "Json"

\* the serializer each content type stands for
FormatOf(content_type) ==
    CASE content_type = "Json" -> "Json"
      [] content_type \in {"TextXml", "ApplicationXml"} -> "Xml"
      [] content_type = "UrlEncoded" -> "UrlEncoded"

\* the tag the serializers put on the bytes they produce
BytesFormat(bytes) ==
    CASE bytes[1] = "json" -> "Json"
      [] bytes[1] = "xml" -> "Xml"
      [] bytes[1] = "form" -> "UrlEncoded"

\* C6: make_body encodes with the per-call override if there is one, else with
\* the client configuration's content type, else with Json; what it selects is
\* always one of the four variants.
C6_ContentTypeResolution ==
    bodyCall.result # None =>
        LET expected == ExpectedContentType(bodyCall.config, bodyCall.options)
            r == bodyCall.result[1]
        IN /\ expected \in ContentTypes
           /\ r.ok => r.val[2] = expected /\ BytesFormat(r.val[1]) = FormatOf(expected)
           /\ ~r.ok => r.err.kind = "SerializationError" /\ r.err.format = FormatOf(expected)

\* C6 witness: options without an override and a configured TextXml gave a
\* body encoded as TextXml
C6_Witness ==
    /\ bodyCall.result # None
    /\ bodyCall.options # None
    /\ bodyCall.options[1].content_type = None
    /\ bodyCall.config # None
    /\ bodyCall.config[1].content_type = "TextXml"
    /\ bodyCall.result[1].ok
    /\ bodyCall.result[1].val[2] = "TextXml"

-----------------------------------------------------------------------------
(* Properties of the headers a verb call sends, under SpecCall *)

Range(f) == {f[x] : x \in DOMAIN f}

\* the values the per-call options' headers give for a header name
PerCallValues(c, name) ==
    IF calls[c].options = None \/ calls[c].options[1].headers = None THEN {}
    ELSE LET headers == calls[c].options[1].headers[1]
         IN {headers[k] : k \in {x \in DOMAIN headers : HeaderName_from_str(x) = Ok(name)}}

\* C4: for every header name that is both in the client's default headers (as
\* given to the transport at construction) and in the per-call options'
\* headers, the request that goes out carries the per-call value and not the
\* client value.
C4_PerCallOverClient ==
    \A c \in CallIds :
        calls[c].request # None =>
            LET request == calls[c].request[1]
                defaults == request.client.default_headers
            IN \A name \in DOMAIN defaults :
                PerCallValues(c, name) # {} =>
                    /\ \E v \in PerCallValues(c, name) : v \in Range(request.headers[name])
                    /\ \A v \in Range(defaults[name]) :
                        v \in Range(request.headers[name]) => v \in PerCallValues(c, name)

-----------------------------------------------------------------------------
(* Properties of the client's stored default headers, under SpecClient *)

\* the header names insert_default_headers writes
InjectedNames == {"user-agent", CONTENT_TYPE, ACCEPT}

\* the persistent headers the caller gave to the last operation on the client
SuppliedHeaders ==
    CASE configured.op = "new" ->
            IF configured.arg = None THEN None ELSE configured.arg[1].headers
      [] configured.op = "set_default_headers" -> configured.arg
      [] OTHER -> None

\* C5: after a successful Raxios::new or set_default_headers whose persistent
\* headers hold a key the client also injects (user-agent, content-type,
\* accept), the client's stored default headers, in its configuration and in
\* its transport handle, hold the caller's value for that key.
C5_ClientOverInjected ==
    (configured.result.ok /\ SuppliedHeaders # None) =>
        \A k \in DOMAIN SuppliedHeaders[1] \cap InjectedNames :
            /\ client.config[1].headers[1][k] = SuppliedHeaders[1][k]
            /\ client.client.default_headers[k] = <<SuppliedHeaders[1][k]>>

-----------------------------------------------------------------------------
(* Properties of calls interleaved with set_default_headers, under Spec *)

\* the outcomes the verb method's synchronous part can have on client `self`
PrefixOutcomes(self, c) ==
    UNION {verb_prefix(self, calls[c].method, calls[c].endpoint, calls[c].data,
                       calls[c].options, overflow_checks)
           : overflow_checks \in BOOLEAN}

\* C10: a call that has started works, from request build to its outcome,
\* with the transport handle and configuration the client held when the call
\* started, and while a call is in flight the client is the one it started
\* with: set_default_headers only reaches calls that start after it.
C10_InFlightKeepsStartClient ==
    \A c \in CallIds :
        calls[c].started # None =>
            LET self == calls[c].started[1]
            IN /\ calls[c].pc \in {"created", "sent"} => client = self
               /\ calls[c].request # None =>
                    /\ calls[c].request[1].client = self.client
                    /\ \E r \in PrefixOutcomes(self, c) :
                          r.ok /\ calls[c].request[1] = RequestBuilder_send(r.val)
               /\ (calls[c].pc = "done" /\ calls[c].request = None) =>
                    calls[c].result[1] \in PrefixOutcomes(self, c)

\* C10 witness: a call answered on the first transport handle, the default
\* headers replaced after it, and a second call sent on the new handle
C10_Witness ==
    \E c1, c2 \in CallIds :
        /\ calls[c1].pc = "done"
        /\ calls[c1].response # None
        /\ calls[c1].request[1].client.id = 0
        /\ generation = 1
        /\ calls[c2].pc = "sent"
        /\ calls[c2].request[1].client.id = 1
        /\ calls[c2].request[1].client # calls[c1].request[1].client

-----------------------------------------------------------------------------
(* Properties of set_default_headers steps, under SpecClient *)

\* a step in which set_default_headers returned Ok(())
SetSucceeded ==
    /\ generation' = generation + 1
    /\ configured'.op = "set_default_headers"
    /\ configured'.result.ok

\* the values insert_default_headers takes from a configuration
InjectedValue(config, name) ==
    CASE name = "user-agent" -> USER_AGENT
      [] name = CONTENT_TYPE -> ContentType_to_string(config.content_type)
      [] name = ACCEPT -> ContentType_to_string(config.accept)

\* the transport default headers that hold exactly the entries of a mapping
AsDefaults(map) ==
    [name \in {HeaderName_from_str(k).val : k \in DOMAIN map} |->
        <<map[CHOOSE k \in DOMAIN map : HeaderName_from_str(k).val = name]>>]

\* C11: after a successful set_default_headers(h) the persistent header
\* mapping is h plus the injected defaults and nothing else, the transport
\* handle is a new one whose defaults are exactly that mapping, and base URL,
\* timeout, default accept and default content-type are as before.
C11_ReplaceSemantics ==
    [][SetSucceeded =>
        LET h == unwrap_or(configured'.arg, Map_new)
            before == client.config[1]
            after == client'.config[1]
            stored == after.headers[1]
        IN /\ DOMAIN stored = DOMAIN h \cup InjectedNames
           /\ \A k \in DOMAIN h : stored[k] = h[k]
           /\ \A k \in InjectedNames \ DOMAIN h : stored[k] = InjectedValue(before, k)
           /\ client'.client.id # client.client.id
           /\ client'.client.default_headers = AsDefaults(stored)
           /\ client'.base_url = client.base_url
           /\ after.timeout_ms = before.timeout_ms
           /\ client'.client.timeout = before.timeout_ms
           /\ after.accept = before.accept
           /\ after.content_type = before.content_type]_vars

-----------------------------------------------------------------------------
(* Properties of a failed send, under SpecCall *)

\* the call was sent and ended without a response
SendFailed(c) ==
    /\ calls[c].pc = "done"
    /\ calls[c].request # None
    /\ calls[c].response = None

\* C12: a call whose send fails returns UnableToSendRequest with the
\* transport's error, has invoked send exactly once, and no classification or
\* decoding has run (no response was handled); no call invokes send twice.
C12_SendFailureIsTerminal ==
    \A c \in CallIds :
        /\ calls[c].sends <= 1
        /\ SendFailed(c) =>
            /\ calls[c].result = Some(Err([kind |-> "UnableToSendRequest",
                                           err |-> "reqwest::Error"]))
            /\ calls[c].sends = 1
        /\ (calls[c].pc = "done" /\ calls[c].result[1] \in
                {Err([kind |-> "UnableToSendRequest", err |-> "reqwest::Error"])}) =>
            calls[c].response = None

\* C12 witness: a PATCH with a body whose send failed
C12_Witness ==
    \E c \in CallIds :
        /\ SendFailed(c)
        /\ calls[c].method = "PATCH"
        /\ calls[c].data # None
        /\ calls[c].sends = 1
        /\ calls[c].result[1].err.kind = "UnableToSendRequest"

-----------------------------------------------------------------------------
(* Properties of ContentType's Display and FromStr, under SpecBody *)

\* the four canonical MIME strings
CanonicalStrings ==
    {"application/json", "text/xml", "application/xml",
     "application/x-www-form-urlencoded"}

\* C13: rendering a ContentType variant and parsing the string gives the
\* variant back, for each of the four variants and so for the content type
\* every make_body call resolves; the four rendered strings are the canonical
\* ones and are pairwise distinct.
C13_ContentTypeRoundTrip ==
    /\ \A v \in ContentTypes :
        ContentType_from_str(ContentType_to_string(v)) = Ok(v)
    /\ \A v, w \in ContentTypes :
        v # w => ContentType_to_string(v) # ContentType_to_string(w)
    /\ {ContentType_to_string(v) : v \in ContentTypes} = CanonicalStrings
    /\ Cardinality(CanonicalStrings) = 4
    /\ (bodyCall.result # None /\ bodyCall.result[1].ok) =>
        LET v == bodyCall.result[1].val[2]
        IN ContentType_from_str(ContentType_to_string(v)) = Ok(v)

\* C13 witness: make_body resolved ApplicationXml, whose string
\* "application/xml" parses back to ApplicationXml
C13_Witness ==
    /\ bodyCall.result # None
    /\ bodyCall.result[1].ok
    /\ bodyCall.result[1].val[2] = "ApplicationXml"
    /\ ContentType_to_string(bodyCall.result[1].val[2]) = "application/xml"
    /\ ContentType_from_str("application/xml") = Ok("ApplicationXml")

-----------------------------------------------------------------------------
(* Properties of the Content-Type header a verb call sends, under SpecCall *)

\* the content type resolved for a call: the per-call override, else the
\* default of the client the call started on
ResolvedContentType(c) ==
    ExpectedContentType(calls[c].started[1].config, calls[c].options)

\* C14: every request that goes out carries exactly one Content-Type value,
\* the MIME string of the content type resolved for the call, with or without
\* a body and whatever the per-call headers are.
C14_OneContentTypeHeader ==
    \A c \in CallIds :
        calls[c].request # None =>
            LET headers == calls[c].request[1].headers
            IN /\ CONTENT_TYPE \in DOMAIN headers
               /\ headers[CONTENT_TYPE] =
                    <<ContentType_to_string(ResolvedContentType(c))>>

-----------------------------------------------------------------------------
(* Properties of header conversion, under SpecClient *)

\* C15: the headers handed to the transport for the client's stored header
\* mapping do not depend on the order in which the mapping is iterated: every
\* order gives the same outcome, also when keys differ only in letter case
\* from each other or from the injected names, and the transport handle holds
\* that outcome.
C15_MergeIsDeterministic ==
    configured.result.ok =>
        LET outcomes == map_to_reqwest_headers(client.config[1].headers[1])
        IN /\ Cardinality(outcomes) = 1
           /\ \A o \in outcomes : o.ok /\ client.client.default_headers = o.val

-----------------------------------------------------------------------------
(* Properties of the steps before dispatch, under SpecCall *)

\* the call ran its synchronous part and did not abort in it
Returned(c) ==
    /\ calls[c].pc \in {"sent", "done"}
    /\ calls[c].result # Some(Err([kind |-> "Panic"]))

\* the options the verb method works with: options.unwrap_or_default()
CallOptionsOf(c) == unwrap_or(calls[c].options, RaxiosOptions_default)

\* build_url returns InvalidUrl for the call
UrlFails(c) ==
    \E overflow_checks \in BOOLEAN :
        build_url(calls[c].started[1], calls[c].endpoint, Some(CallOptionsOf(c)),
                  overflow_checks).kind = "InvalidUrl"

\* make_body returns SerializationError for the call's payload
BodyFails(c) ==
    /\ calls[c].data # None
    /\ ~make_body(calls[c].started[1], calls[c].data[1], Some(CallOptionsOf(c))).ok

\* map_to_reqwest_headers returns HeaderParseError for the per-call headers
HeaderFails(c) ==
    /\ CallOptionsOf(c).headers # None
    /\ \E o \in map_to_reqwest_headers(CallOptionsOf(c).headers[1]) : ~o.ok

\* the call returned an error before dispatch
FailedBeforeSend(c) ==
    /\ Returned(c)
    /\ calls[c].pc = "done"
    /\ calls[c].request = None

\* C16: when more than one step before dispatch fails, the error returned is
\* that of the earliest failing step in the order URL build, body encoding,
\* header merge: InvalidUrl before SerializationError before HeaderParseError.
C16_StepOrder ==
    \A c \in CallIds :
        FailedBeforeSend(c) =>
            LET kind == calls[c].result[1].err.kind
            IN CASE UrlFails(c) -> kind = "InvalidUrl"
                 [] ~UrlFails(c) /\ BodyFails(c) -> kind = "SerializationError"
                 [] OTHER -> kind = "HeaderParseError"

\* the errors of the steps that fail for the call
FailingStepErrors(c) ==
    {Err([kind |-> "InvalidUrl", url |-> u]) :
        u \in {build_url(calls[c].started[1], calls[c].endpoint,
                         Some(CallOptionsOf(c)), oc).built_string
               : oc \in {b \in BOOLEAN : UrlFails(c)}}}
    \cup {make_body(calls[c].started[1], calls[c].data[1], Some(CallOptionsOf(c)))
          : x \in {y \in {1} : BodyFails(c)}}
    \cup {o \in (IF HeaderFails(c)
                 THEN map_to_reqwest_headers(CallOptionsOf(c).headers[1])
                 ELSE {}) : ~o.ok}

-----------------------------------------------------------------------------
(* Properties of the injected defaults, under SpecClient *)

\* C18: whether the client was made by Raxios::new or by Raxios::default(),
\* and after any successful or failed set_default_headers, its configuration
\* and header mapping are present and the mapping holds user-agent with the
\* crate's user-agent string, content-type with the MIME string of the
\* configuration's content_type and accept with that of its accept.
C18_InjectedDefaultsPresent ==
    /\ client.config # None
    /\ client.config[1].headers # None
    /\ LET config == client.config[1]
           stored == config.headers[1]
       IN /\ InjectedNames \subseteq DOMAIN stored
          /\ \A k \in InjectedNames \cap DOMAIN stored :
                stored[k] = InjectedValue(config, k)

-----------------------------------------------------------------------------
(* Properties of a failing set_default_headers, under SpecClient *)

\* the keys of a header mapping whose entry does not convert to a transport
\* header name and value
BadKeys(map) ==
    {k \in DOMAIN map :
        ~HeaderName_from_str(k).ok \/ ~HeaderValue_from_str(map[k]).ok}

\* set_default_headers was the last operation and its mapping has an entry
\* that does not convert
SetWithBadEntry(conf) ==
    /\ conf.op = "set_default_headers"
    /\ conf.arg # None
    /\ BadKeys(conf.arg[1]) # {}

\* C19: a set_default_headers whose mapping has an entry that cannot be
\* converted returns HeaderParseError with the key and value of such an
\* entry, and leaves the transport handle, the configuration with its
\* persistent headers and the base URL exactly as they were.
C19_SetIsAllOrNothing ==
    [][SetWithBadEntry(configured') =>
        /\ ~configured'.result.ok
        /\ configured'.result.err.kind = "HeaderParseError"
        /\ configured'.result.err.key \in BadKeys(configured'.arg[1])
        /\ configured'.result.err.value = configured'.arg[1][configured'.result.err.key]
        /\ client' = client
        /\ generation' = generation]_vars

-----------------------------------------------------------------------------
(* Properties of build_url's outcomes, under SpecUrl *)

\* s starts with the sequence p
StartsWith(s, p) == Len(s) >= Len(p) /\ SubSeq(s, 1, Len(p)) = p

\* s ends with the sequence p
EndsWith(s, p) == Len(s) >= Len(p) /\ SubSeq(s, Len(s) - Len(p) + 1, Len(s)) = p

\* C20: build_url returns for every base URL (the empty one of
\* Raxios::default() too), endpoint and parameter mapping: a parsed Url, or
\* InvalidUrl with the whole string it assembled (base, endpoint and query);
\* it never aborts on the index 'length of base minus 1'.
C20_BuildUrlIsTotal ==
    urlCall.result # None =>
        LET r == urlCall.result[1]
        IN /\ r.kind \in {"Ok", "InvalidUrl"}
           /\ r.kind = "Ok" <=> Url_parse(r.built_string).ok
           /\ StartsWith(r.built_string, client.base_url)
           /\ EndsWith(r.built_string,
                       urlCall.endpoint \o ExpectedQuery(urlCall.options))

====
